---- MODULE Spec2Model ----
(***************************************************************************)
(* State-machine model of the Flask blog application in src/main.py and    *)
(* src/forms.py: three tables (users, blog_posts, comments), the per-client *)
(* login session kept by flask_login, and one action per route handler.    *)
(* Each handler is a function from the state and the request to a result   *)
(* (the response and the tables and session it leaves); its action applies *)
(* that result.                                                            *)
(* The data store is modelled as SQLAlchemy on the default SQLite URL      *)
(* (src/main.py:33): integer primary keys are max(rowid)+1, UNIQUE columns  *)
(* are enforced at commit, FOREIGN KEY clauses are not enforced, and        *)
(* deleting a parent row nulls the foreign key of its related children.    *)
(***************************************************************************)
EXTENDS Integers, FiniteSets, Sequences, TLC

VARIABLES users, posts, comments, session, reg

vars == <<users, posts, comments, session, reg>>

(* ------------------------------ bounds --------------------------------- *)
MaxUsers == 2
MaxPostId == 2
MaxComments == 1

(* --------------------------- input domains ----------------------------- *)
Clients == {"c1", "c2"}
Names == {"", "n1"}
Emails == {"", "e1", "e2"}
Passwords == {"", "p1", "p2"}
Salts == {1, 2}
Titles == {"", "t1", "t2"}
Texts == {"", "hello"}
Methods == {"GET", "POST"}
Days == {1, 2}
RequestPostIds == 1..(MaxPostId + 1)

None == [none |-> TRUE]
Anonymous == 0
NULL == 0

(* the literal administrator id tested by the gate *)
ADMIN_ID == 1

(* ------------------------------ forms ---------------------------------- *)
RegisterForms == [name : Names, email : Emails, password : Passwords]
LoginForms == [email : Emails, password : Passwords]
CommentForms == [comment : Texts]

(* Post forms: the three content fields travel together as one of a few    *)
(* versions; "not-a-url" is a non-empty img_url the URL() validator rejects *)
PostContents ==
    { [subtitle |-> "s1", img_url |-> "http://img/1", body |-> "b1"],
      [subtitle |-> "s2", img_url |-> "http://img/2", body |-> "b2"],
      [subtitle |-> "s1", img_url |-> "not-a-url",    body |-> "b1"],
      [subtitle |-> "",   img_url |-> "http://img/1", body |-> "b1"],
      [subtitle |-> "s1", img_url |-> "http://img/1", body |-> ""] }

CreatePostForms ==
    { [title |-> t, subtitle |-> k.subtitle, img_url |-> k.img_url, body |-> k.body] :
        t \in Titles, k \in PostContents }

BlankRegister == [name |-> "", email |-> "", password |-> ""]
BlankLogin == [email |-> "", password |-> ""]
BlankComment == [comment |-> ""]
BlankPost == [title |-> "", subtitle |-> "", img_url |-> "", body |-> ""]

(* a GET carries no form data *)
FormsFor(method, forms, blank) == IF method = "GET" THEN {blank} ELSE forms

DataRequired(v) == v # ""

URL(v) == v \in {"http://img/1", "http://img/2"}

ValidRegisterForm(f) ==
    DataRequired(f.email) /\ DataRequired(f.password) /\ DataRequired(f.name)

ValidLoginForm(f) == DataRequired(f.email) /\ DataRequired(f.password)

ValidCommentForm(f) == DataRequired(f.comment)

ValidCreatePostForm(f) ==
    /\ DataRequired(f.title)
    /\ DataRequired(f.subtitle)
    /\ DataRequired(f.img_url) /\ URL(f.img_url)
    /\ DataRequired(f.body)

(* validate_on_submit: a submitted (POST) request whose fields validate *)
validate_on_submit(method, valid) == method = "POST" /\ valid

(* ---------------------------- responses -------------------------------- *)
(* a response body that is no URL: its text, and no post id *)
Text(t) == <<t, 0>>

render_template(t) == [status |-> 200, body |-> Text(t), flash |-> ""]

(* url_for(endpoint, post_id=...); post_id is 0 for a route without one *)
url_for(endpoint, post_id) == <<endpoint, post_id>>

redirect(to, msg) == [status |-> 302, body |-> to, flash |-> msg]

abort403 == [status |-> 403, body |-> Text("Forbidden"), flash |-> ""]

NeedLogIn == [status |-> 200, body |-> Text("<h1> need to log in first </h1>"), flash |-> ""]

(* an exception no handler catches: Flask answers 500 *)
Unhandled(exc) == [status |-> 500, body |-> Text(exc), flash |-> ""]

(* what one request leaves behind: the response, whether the wrapped       *)
(* handler body was entered, and the tables and the session map            *)
Result(resp, called, u, p, cm, s) ==
    [resp |-> resp, called |-> called, users |-> u, posts |-> p, comments |-> cm, session |-> s]

(* a request that writes nothing *)
Same(resp, called) == Result(resp, called, users, posts, comments, session)

(* --------------------------- password hasher --------------------------- *)
(* pbkdf2:sha256 is modelled as an injective function of (salt, password) *)
PBKDF2(salt, password) == <<"pbkdf2:sha256", salt, password>>

generate_password_hash(password, salt) ==
    [salt |-> salt, digest |-> PBKDF2(salt, password)]

(* faulty variant: only the method tag of the hash is compared *)
check_password_hash_method_only(pwhash, password) ==
    pwhash.digest[1] = PBKDF2(pwhash.salt, password)[1]

check_password_hash(pwhash, password) ==
    pwhash.digest = PBKDF2(pwhash.salt, password)

(* ----------------------------- data store ------------------------------ *)
Max(S) == CHOOSE x \in S : \A y \in S : y <= x

Min(S) == CHOOSE x \in S : \A y \in S : x <= y

(* INTEGER PRIMARY KEY of SQLite: one more than the largest id in the table *)
NextId(table) == IF table = {} THEN 1 ELSE Max({r.id : r \in table}) + 1

(* query.first(): the matching row with the lowest id, or None *)
First(rows) == IF rows = {} THEN None ELSE CHOOSE r \in rows : r.id = Min({x.id : x \in rows})

(* faulty variant: the lookup filters on the name column *)
FindUserByEmail_wrong_column(email) == First({u \in users : u.name = email})

(* User.query.filter_by(email=...).first() *)
FindUserByEmail(email) == First({u \in users : u.email = email})

(* User.query.get(id) *)
load_user(user_id) == First({u \in users : u.id = user_id})

(* BlogPost.query.get(id) *)
BlogPost_get(post_id) == First({p \in posts : p.id = post_id})

(* flask_login current_user: the id of the session's user, or Anonymous *)
current_user(c) ==
    IF session[c] = Anonymous \/ load_user(session[c]) = None
    THEN Anonymous ELSE session[c]

(* faulty variant: users.email declared without unique=True *)
UserEmailUnique_off(table) == TRUE

(* users.email UNIQUE *)
UserEmailUnique(table) ==
    \A a \in table, b \in table : a.email = b.email => a.id = b.id

(* faulty variant: blog_posts.title declared without unique=True *)
PostTitleUnique_off(table) == TRUE

(* blog_posts.title UNIQUE *)
PostTitleUnique(table) ==
    \A a \in table, b \in table : a.title = b.title => a.id = b.id

NewUser(f, hashed) ==
    [id |-> NextId(users), name |-> f.name, email |-> f.email, password |-> hashed]

(* faulty variant: blog_id and commenter_id take each other's value *)
NewComment_swapped(text, post_id, uid) ==
    [id |-> NextId(comments), text |-> text, commenter_id |-> post_id, blog_id |-> uid]

NewComment(text, post_id, uid) ==
    [id |-> NextId(comments), text |-> text, commenter_id |-> uid, blog_id |-> post_id]

strftime(d) == <<"%B %d, %Y", d>>

NewPost(f, uid, day) ==
    [id |-> NextId(posts), title |-> f.title, subtitle |-> f.subtitle,
     body |-> f.body, img_url |-> f.img_url, author_id |-> uid,
     date |-> strftime(day)]

(* faulty variant: the body assignment is missing *)
EditedPost_no_body(post, f) ==
    [post EXCEPT !.title = f.title, !.subtitle = f.subtitle, !.img_url = f.img_url]

EditedPost(post, f) ==
    [post EXCEPT !.title = f.title, !.subtitle = f.subtitle,
                 !.img_url = f.img_url, !.body = f.body]

(* faulty variant: relationship declared with cascade="all, delete-orphan" *)
CommentsAfterDelete_cascade(post) == {ct \in comments : ct.blog_id # post.id}

(* session.delete(post) without a cascade rule: the post's comments stay   *)
(* and their blog_id is set to NULL                                        *)
CommentsAfterDelete(post) ==
    { IF ct.blog_id = post.id THEN [ct EXCEPT !.blog_id = NULL] ELSE ct : ct \in comments }

(* ------------------------- authorization gate -------------------------- *)
(* faulty variant: the gate tests only that somebody is logged in *)
admin_only_any_user(u) == IF u = Anonymous THEN "AttributeError" ELSE "call"

(* wrapper_function up to the call of the wrapped handler *)
admin_only(u) ==
    IF u = Anonymous THEN "AttributeError"
    ELSE IF u = ADMIN_ID THEN "call"
    ELSE "abort"

(* wrapper_function around the result of the handler body *)
wrapper_function(c, body) ==
    IF admin_only(current_user(c)) = "call" THEN body
    ELSE IF admin_only(current_user(c)) = "abort" THEN Same(abort403, FALSE)
    ELSE Same(NeedLogIn, FALSE)

(* ------------------------- handlers as functions ----------------------- *)
get_all_posts_result == Same(render_template("index.html"), TRUE)

about_result == Same(render_template("about.html"), TRUE)

contact_result == Same(render_template("contact.html"), TRUE)

(* register up to the email lookup: which branch the handler takes *)
register_lookup(method, f) ==
    IF validate_on_submit(method, ValidRegisterForm(f))
    THEN IF FindUserByEmail(f.email) # None THEN "duplicate" ELSE "insert"
    ELSE "render"

RegisterDuplicate ==
    Same(redirect(url_for("login", 0), "That email already exist in db!"), TRUE)

(* db.session.add(new_user); db.session.commit(); login_user(new_user) *)
register_insert(c, f, hashed) ==
    LET new_user == NewUser(f, hashed) IN
    IF UserEmailUnique(users \cup {new_user})
    THEN Result(redirect(url_for("get_all_posts", 0), ""), TRUE, users \cup {new_user}, posts, comments,
                [session EXCEPT ![c] = new_user.id])
    ELSE Same(Unhandled("IntegrityError"), TRUE)

(* the whole register handler, run without interleaving *)
register_result(c, method, f, salt) ==
    CASE register_lookup(method, f) = "duplicate" -> RegisterDuplicate
      [] register_lookup(method, f) = "insert" ->
            register_insert(c, f, generate_password_hash(f.password, salt))
      [] OTHER -> Same(render_template("register.html"), TRUE)

login_result(c, method, f) ==
    IF validate_on_submit(method, ValidLoginForm(f))
    THEN LET user == FindUserByEmail(f.email) IN
         IF user # None
         THEN IF check_password_hash(user.password, f.password)
              THEN Result(redirect(url_for("get_all_posts", 0), ""), TRUE, users, posts, comments,
                          [session EXCEPT ![c] = user.id])
              ELSE Same(redirect(url_for("login", 0), "Wrong Password!"), TRUE)
         ELSE Same(redirect(url_for("login", 0), "Wrong Entry!"), TRUE)
    ELSE Same(render_template("login.html"), TRUE)

logout_result(c) ==
    Result(redirect(url_for("get_all_posts", 0), ""), TRUE, users, posts, comments,
           [session EXCEPT ![c] = Anonymous])

show_post_result(c, post_id, method, f) ==
    IF validate_on_submit(method, ValidCommentForm(f))
    THEN IF current_user(c) # Anonymous
         THEN Result(redirect(url_for("show_post", post_id), ""), TRUE, users, posts,
                     comments \cup {NewComment(f.comment, post_id, current_user(c))}, session)
         ELSE Same(redirect(url_for("login", 0), "Need to log in to comment!"), TRUE)
    ELSE Same(render_template("post.html"), TRUE)

add_new_post_body(c, method, f, day) ==
    IF validate_on_submit(method, ValidCreatePostForm(f))
    THEN LET new_post == NewPost(f, current_user(c), day) IN
         IF PostTitleUnique(posts \cup {new_post})
         THEN Result(redirect(url_for("get_all_posts", 0), ""), TRUE, users, posts \cup {new_post},
                     comments, session)
         ELSE Same(Unhandled("IntegrityError"), TRUE)
    ELSE Same(render_template("make-post.html"), TRUE)

add_new_post_result(c, method, f, day) ==
    wrapper_function(c, add_new_post_body(c, method, f, day))

edit_post_body(c, post_id, method, f) ==
    LET post == BlogPost_get(post_id) IN
    IF post = None
    THEN (* post.title raises AttributeError, which the wrapper's except catches *)
         Same(NeedLogIn, TRUE)
    ELSE IF validate_on_submit(method, ValidCreatePostForm(f))
         THEN LET edited == (posts \ {post}) \cup {EditedPost(post, f)} IN
              IF PostTitleUnique(edited)
              THEN Result(redirect(url_for("show_post", post.id), ""), TRUE, users, edited, comments, session)
              ELSE Same(Unhandled("IntegrityError"), TRUE)
         ELSE Same(render_template("make-post.html"), TRUE)

edit_post_result(c, post_id, method, f) ==
    wrapper_function(c, edit_post_body(c, post_id, method, f))

delete_post_body(c, post_id) ==
    LET post_to_delete == BlogPost_get(post_id) IN
    IF post_to_delete = None
    THEN (* db.session.delete(None) raises UnmappedInstanceError *)
         Same(Unhandled("UnmappedInstanceError"), TRUE)
    ELSE Result(redirect(url_for("get_all_posts", 0), ""), TRUE, users, posts \ {post_to_delete},
                CommentsAfterDelete(post_to_delete), session)

delete_post_result(c, post_id) ==
    wrapper_function(c, delete_post_body(c, post_id))

(* BlogPost.query.all(), as the home page lists it after a request *)
listPosts(r) == r.posts

(* ------------------------------ Init ----------------------------------- *)
(* reg[c]: where client c's register request stands when its email lookup  *)
(* and its insert are separate steps                                       *)
Idle == [pc |-> "idle", form |-> BlankRegister, hashed |-> None, resp |-> None]

Init ==
    /\ users = {}
    /\ posts = {}
    /\ comments = {}
    /\ session = [c \in Clients |-> Anonymous]
    /\ reg = [c \in Clients |-> Idle]

(* ------------------------------ actions -------------------------------- *)
WithinBounds(r) ==
    /\ Cardinality(r.users) <= MaxUsers
    /\ Cardinality(r.comments) <= MaxComments
    /\ \A p \in r.posts : p.id <= MaxPostId

Apply(r) ==
    /\ users' = r.users
    /\ posts' = r.posts
    /\ comments' = r.comments
    /\ session' = r.session

get_all_posts(c) ==
    /\ Apply(get_all_posts_result)
    /\ UNCHANGED reg

about(c) ==
    /\ Apply(about_result)
    /\ UNCHANGED reg

contact(c) ==
    /\ Apply(contact_result)
    /\ UNCHANGED reg

register(c, method, f, salt) ==
    /\ WithinBounds(register_result(c, method, f, salt))
    /\ Apply(register_result(c, method, f, salt))
    /\ UNCHANGED reg

login(c, method, f) ==
    /\ Apply(login_result(c, method, f))
    /\ UNCHANGED reg

logout(c) ==
    /\ Apply(logout_result(c))
    /\ UNCHANGED reg

show_post(c, post_id, method, f) ==
    /\ WithinBounds(show_post_result(c, post_id, method, f))
    /\ Apply(show_post_result(c, post_id, method, f))
    /\ UNCHANGED reg

add_new_post(c, method, f, day) ==
    /\ WithinBounds(add_new_post_result(c, method, f, day))
    /\ Apply(add_new_post_result(c, method, f, day))
    /\ UNCHANGED reg

edit_post(c, post_id, method, f) ==
    /\ Apply(edit_post_result(c, post_id, method, f))
    /\ UNCHANGED reg

delete_post(c, post_id) ==
    /\ Apply(delete_post_result(c, post_id))
    /\ UNCHANGED reg

(* One request, with its inputs drawn from the given sets *)
Step(clients, regForms, salts, loginForms, postIds, commentForms, postForms, days) ==
    \/ \E c \in clients : get_all_posts(c)
    \/ \E c \in clients : about(c)
    \/ \E c \in clients : contact(c)
    \/ \E c \in clients, m \in Methods, salt \in salts :
          \E f \in FormsFor(m, regForms, BlankRegister) : register(c, m, f, salt)
    \/ \E c \in clients, m \in Methods :
          \E f \in FormsFor(m, loginForms, BlankLogin) : login(c, m, f)
    \/ \E c \in clients : logout(c)
    \/ \E c \in clients, id \in postIds, m \in Methods :
          \E f \in FormsFor(m, commentForms, BlankComment) : show_post(c, id, m, f)
    \/ \E c \in clients, m \in Methods, day \in days :
          \E f \in FormsFor(m, postForms, BlankPost) : add_new_post(c, m, f, day)
    \/ \E c \in clients, id \in postIds, m \in Methods :
          \E f \in FormsFor(m, postForms, BlankPost) : edit_post(c, id, m, f)
    \/ \E c \in clients, id \in postIds : delete_post(c, id)

(* Submitted forms: every form that validates and, since a form that does  *)
(* not validate writes nothing whichever field is at fault, one that does  *)
(* not                                                                     *)
ValidRegisterForms == {f \in RegisterForms : ValidRegisterForm(f)}
ValidLoginForms == {f \in LoginForms : ValidLoginForm(f)}
ValidCommentForms == {f \in CommentForms : ValidCommentForm(f)}
ValidPostForms == {f \in CreatePostForms : ValidCreatePostForm(f)}

BadUrlPost ==
    [title |-> "t1", subtitle |-> "s1", img_url |-> "not-a-url", body |-> "b1"]

(* Posts and comments in full; one browser, one password, one salt *)
Next ==
    Step({"c1"},
         {f \in ValidRegisterForms : f.password = "p1"} \cup {BlankRegister}, {1},
         {f \in ValidLoginForms : f.password = "p1"} \cup {BlankLogin},
         RequestPostIds, CommentForms, ValidPostForms \cup {BadUrlPost}, Days)

Spec == Init /\ [][Next]_vars

(* Accounts and sessions in full; one post title, one content version *)
AccountNext ==
    Step(Clients, ValidRegisterForms \cup {BlankRegister}, Salts,
         ValidLoginForms \cup {BlankLogin}, {1, 2}, CommentForms,
         {f \in ValidPostForms : f.title = "t1" /\ f.subtitle = "s1"} \cup {BadUrlPost}, {1})

AccountSpec == Init /\ [][AccountNext]_vars

(* ------------------- register requests that interleave ----------------- *)
(* form.validate_on_submit() and the email lookup of client c's request *)
register_begin(c, method, f, salt) ==
    /\ reg[c].pc # "insert"
    /\ reg' = [reg EXCEPT ![c] =
                 CASE register_lookup(method, f) = "insert" ->
                        [pc |-> "insert", form |-> f,
                         hashed |-> generate_password_hash(f.password, salt), resp |-> None]
                   [] register_lookup(method, f) = "duplicate" ->
                        [pc |-> "done", form |-> f, hashed |-> None, resp |-> RegisterDuplicate.resp]
                   [] OTHER ->
                        [pc |-> "done", form |-> f, hashed |-> None,
                         resp |-> render_template("register.html")]]
    /\ UNCHANGED <<users, posts, comments, session>>

(* the insert, the commit and login_user of client c's request *)
register_commit(c) ==
    /\ reg[c].pc = "insert"
    /\ WithinBounds(register_insert(c, reg[c].form, reg[c].hashed))
    /\ Apply(register_insert(c, reg[c].form, reg[c].hashed))
    /\ reg' = [reg EXCEPT ![c] =
                 [pc |-> "done", form |-> reg[c].form, hashed |-> None,
                  resp |-> register_insert(c, reg[c].form, reg[c].hashed).resp]]

RaceNext ==
    \/ \E c \in Clients, m \in Methods, salt \in {1} :
          \E f \in FormsFor(m, ValidRegisterForms \cup {BlankRegister}, BlankRegister) :
             register_begin(c, m, f, salt)
    \/ \E c \in Clients : register_commit(c)
    \/ \E c \in Clients : logout(c)

RaceSpec == Init /\ [][RaceNext]_vars

(* =============================== claims ================================ *)
(* The session of client c holds the id of an existing User *)
Authenticated(c) == \E u \in users : u.id = session[c]

IsAdministrator(c) == Authenticated(c) /\ session[c] = 1

TablesSame(r) == r.users = users /\ r.posts = posts /\ r.comments = comments

(* every result client c can get from new-post, edit-post or delete-post *)
AdminResults(c) ==
    {add_new_post_result(c, "GET", BlankPost, d) : d \in Days}
    \cup {add_new_post_result(c, "POST", f, d) : f \in CreatePostForms, d \in Days}
    \cup {edit_post_result(c, id, "GET", BlankPost) : id \in RequestPostIds}
    \cup {edit_post_result(c, id, "POST", f) : id \in RequestPostIds, f \in CreatePostForms}
    \cup {delete_post_result(c, id) : id \in RequestPostIds}

(* C1: for every request to new-post, edit-post or delete-post the wrapped  *)
(* handler body runs only if the session identity is authenticated with    *)
(* id 1; an authenticated identity with another id gets 403; an anonymous  *)
(* identity gets the 'need to log in' response; both denials leave users,  *)
(* posts and comments as they were.                                        *)
C1_AdminGate ==
    \A c \in Clients : \A r \in AdminResults(c) :
        /\ r.called => IsAdministrator(c)
        /\ (Authenticated(c) /\ session[c] # 1) =>
               r.resp.status = 403 /\ ~r.called /\ TablesSame(r)
        /\ ~Authenticated(c) =>
               r.resp = NeedLogIn /\ ~r.called /\ TablesSame(r)

(* a second user is logged in while posts and comments exist, and is refused *)
C1_Witness ==
    \E c \in Clients :
        /\ Authenticated(c) /\ session[c] = 2
        /\ posts # {} /\ comments # {}
        /\ delete_post_result(c, 1).resp.status = 403
        /\ \E d \in Clients : ~Authenticated(d) /\ delete_post_result(d, 1).resp = NeedLogIn

(* C2: a valid register submission with an email no User holds adds        *)
(* exactly one User, with that name and email, and leaves the submitting   *)
(* session authenticated as it; with an email some User holds it answers   *)
(* the duplicate-email message and redirect to login, adds no User and     *)
(* leaves the session identity as it was.                                  *)
C2_Register ==
    \A c \in Clients, salt \in Salts :
      \A f \in ValidRegisterForms :
        LET r == register_result(c, "POST", f, salt) IN
        IF \E u \in users : u.email = f.email
        THEN /\ r.resp = redirect(url_for("login", 0), "That email already exist in db!")
             /\ r.users = users
             /\ Cardinality(r.users) = Cardinality(users)
             /\ r.session = session
        ELSE \E u \in r.users :
                /\ u \notin users
                /\ r.users = users \cup {u}
                /\ Cardinality(r.users) = Cardinality(users) + 1
                /\ u.name = f.name /\ u.email = f.email
                /\ r.session[c] = u.id

(* two users have registered, and registering the first email again is refused *)
C2_Witness ==
    /\ Cardinality(users) = 2
    /\ \E c \in Clients :
          /\ session[c] = 2
          /\ register_result(c, "POST", [name |-> "n1", email |-> "e1", password |-> "p2"], 1).resp.flash
                = "That email already exist in db!"

(* the stored hash of u was generated from this password *)
IsPasswordOf(u, password) ==
    \E salt \in Salts : u.password = generate_password_hash(password, salt)

(* C3 as stated: a login with an existing User's email and password makes  *)
(* that User the session's current user; a login with a wrong password or  *)
(* an unknown email leaves the session anonymous and changes no row.       *)
C3_Login_Original ==
    \A c \in Clients : \A f \in ValidLoginForms :
        LET r == login_result(c, "POST", f) IN
        IF \E u \in users : u.email = f.email /\ IsPasswordOf(u, f.password)
        THEN \E u \in users : u.email = f.email /\ r.session[c] = u.id /\ TablesSame(r)
        ELSE r.session[c] = Anonymous /\ TablesSame(r)

(* C3 amended: a failed login leaves the session identity as it was before *)
(* the request (an anonymous session stays anonymous).                     *)
C3_Login ==
    \A c \in Clients : \A f \in ValidLoginForms :
        LET r == login_result(c, "POST", f) IN
        IF \E u \in users : u.email = f.email /\ IsPasswordOf(u, f.password)
        THEN \E u \in users : u.email = f.email /\ r.session[c] = u.id /\ TablesSame(r)
        ELSE r.session = session /\ TablesSame(r)

(* client c logged in as user 1 after user 2 had registered, a wrong        *)
(* password is refused, and an anonymous client is refused too             *)
C3_Witness ==
    /\ Cardinality(users) = 2
    /\ \E c \in Clients, d \in Clients, f \in ValidLoginForms :
          /\ session[c] = 1 /\ session[d] = Anonymous
          /\ login_result(c, "POST", f).resp.flash = "Wrong Password!"
          /\ login_result(d, "POST", f).resp.flash = "Wrong Password!"

(* C4: a valid comment submission on the page of post P creates no Comment *)
(* and redirects to login when the session is anonymous; when the session  *)
(* is authenticated as U it creates exactly one Comment, with blog_id P    *)
(* and commenter_id U's id, and redirects to the same post; no other       *)
(* Comment, no User and no BlogPost changes.                               *)
C4_Comment ==
    \A c \in Clients, P \in RequestPostIds :
      \A f \in ValidCommentForms :
        LET r == show_post_result(c, P, "POST", f) IN
        /\ r.users = users /\ r.posts = posts
        /\ IF Authenticated(c)
           THEN /\ \E ct \in r.comments :
                      /\ ct \notin comments
                      /\ r.comments = comments \cup {ct}
                      /\ ct.blog_id = P
                      /\ ct.commenter_id = session[c]
                /\ Cardinality(r.comments) = Cardinality(comments) + 1
                /\ r.resp.status = 302 /\ r.resp.body = url_for("show_post", P)
           ELSE /\ r.comments = comments
                /\ r.resp.status = 302 /\ r.resp.body = url_for("login", 0)

(* user 2 has commented on the existing post 1 *)
C4_Witness ==
    \E ct \in comments : ct.commenter_id = 2 /\ ct.blog_id = 1 /\ \E p \in posts : p.id = 1

(* C5: no two BlogPosts ever have the same title: the administrator's      *)
(* new-post with the title of an existing post fails on the title's        *)
(* uniqueness and leaves the posts unchanged; with a title no post holds   *)
(* it succeeds and the post is in the list of all posts.                   *)
C5_UniqueTitle ==
    /\ \A p \in posts, q \in posts : p.title = q.title => p = q
    /\ \A c \in Clients : IsAdministrator(c) =>
         \A f \in ValidPostForms, d \in Days :
            LET r == add_new_post_result(c, "POST", f, d) IN
            IF \E p \in posts : p.title = f.title
            THEN /\ r.resp = Unhandled("IntegrityError")
                 /\ r.posts = posts
            ELSE /\ r.resp.status = 302
                 /\ \E p \in listPosts(r) :
                       /\ p \notin posts
                       /\ p.title = f.title
                       /\ r.posts = posts \cup {p}

(* two posts exist, one of them edited to its title or made on another day *)
C5_Witness ==
    /\ Cardinality(posts) = 2
    /\ \E c \in Clients : IsAdministrator(c)
    /\ \E p \in posts, q \in posts : p.date # q.date

(* C6: when register requests of different clients interleave their email  *)
(* lookup and their insert, at most one User holds an email in every       *)
(* state, at most one finished request was logged in as the User of an     *)
(* email, and a request whose insert fails adds no row and no session.     *)
C6_RegisterRace ==
    /\ \A u \in users, v \in users : u.email = v.email => u = v
    /\ \A c \in Clients, d \in Clients :
          ( /\ c # d
            /\ reg[c].pc = "done" /\ reg[c].resp.status = 302 /\ reg[c].resp.flash = ""
            /\ reg[d].pc = "done" /\ reg[d].resp.status = 302 /\ reg[d].resp.flash = "" )
          => reg[c].form.email # reg[d].form.email
    /\ \A c \in Clients : reg[c].pc = "insert" =>
          LET r == register_insert(c, reg[c].form, reg[c].hashed) IN
          \/ r.resp.status = 500 /\ r.users = users /\ r.session = session
          \/ r.resp.status = 302 /\ Cardinality(r.users) = Cardinality(users) + 1

(* both clients passed the lookup with one email; one was logged in, the   *)
(* other's insert failed                                                    *)
C6_Witness ==
    \E c \in Clients, d \in Clients :
        /\ reg[c].pc = "done" /\ reg[c].resp.status = 302 /\ reg[c].resp.flash = ""
        /\ reg[d].pc = "done" /\ reg[d].resp = Unhandled("IntegrityError")
        /\ reg[c].form.email = reg[d].form.email
        /\ Cardinality({u \in users : u.email = reg[c].form.email}) = 1

(* C7: every Comment's commenter_id is the id of an existing User and its  *)
(* blog_id the id of an existing BlogPost, in every reachable state.       *)
C7_CommentReferences ==
    \A ct \in comments :
        /\ \E u \in users : u.id = ct.commenter_id
        /\ \E p \in posts : p.id = ct.blog_id

(* C8: the administrator's successful edit-post of post P changes only P's *)
(* title, subtitle, image URL and body, to the submitted values; P's id,   *)
(* date and author_id, every other BlogPost, every User and every Comment  *)
(* stay; an edit-post whose form does not validate changes nothing.        *)
C8_EditFrame ==
    \A c \in Clients : IsAdministrator(c) =>
      \A P \in posts, m \in Methods, f \in CreatePostForms :
        LET r == edit_post_result(c, P.id, m, f) IN
        /\ r.users = users /\ r.comments = comments /\ r.session = session
        /\ ~validate_on_submit(m, ValidCreatePostForm(f)) => r.posts = posts
        /\ r.resp.status = 302 =>
              /\ validate_on_submit(m, ValidCreatePostForm(f))
              /\ r.posts = (posts \ {P}) \cup
                    {[id |-> P.id, date |-> P.date, author_id |-> P.author_id,
                      title |-> f.title, subtitle |-> f.subtitle,
                      img_url |-> f.img_url, body |-> f.body]}
        /\ r.resp.status # 302 => r.posts = posts

(* two posts and a comment exist and the administrator can change all four *)
(* fields of one of them                                                   *)
C8_Witness ==
    /\ Cardinality(posts) = 2 /\ comments # {}
    /\ \E c \in Clients, P \in posts, f \in ValidPostForms :
          /\ IsAdministrator(c)
          /\ f.title = P.title /\ f.subtitle # P.subtitle
          /\ f.img_url # P.img_url /\ f.body # P.body
          /\ edit_post_result(c, P.id, "POST", f).resp.status = 302
          /\ edit_post_result(c, P.id, "POST", f).posts # posts

(* C9: the administrator's delete-post of an existing post P removes       *)
(* exactly P: P is no longer listed, every other BlogPost and every User   *)
(* is unchanged, and no Comment row is removed.                            *)
C9_DeleteFrame ==
    \A c \in Clients : IsAdministrator(c) =>
      \A P \in posts :
        LET r == delete_post_result(c, P.id) IN
        /\ P \notin listPosts(r)
        /\ r.posts = posts \ {P}
        /\ r.users = users
        /\ {ct.id : ct \in r.comments} = {ct.id : ct \in comments}
        /\ Cardinality(r.comments) = Cardinality(comments)

(* a commented post was deleted and its comment is still stored *)
C9_Witness ==
    /\ \E ct \in comments : ct.blog_id = NULL
    /\ posts = {}

(* C10: no request of the authenticated administrator to new-post,         *)
(* edit-post or delete-post is answered 'need to log in first'.            *)
C10_AdminNeverNeedLogIn ==
    \A c \in Clients : IsAdministrator(c) =>
        \A r \in AdminResults(c) : r.resp # NeedLogIn

====
